---- MODULE Spec2Model ----
(***************************************************************************)
(* A model of the mailbox mirror and question-answering loop of            *)
(* gmail_rag.py (with the older fetcher of ingest_gmail_pathway.py).       *)
(*                                                                         *)
(*   Spec         the ingestion run of main(): store lookups, listing,     *)
(*                chunked batch download with retry, dedup filter, save    *)
(*   SpecPlan     get_time_and_limit_sql's post-processing of the raw      *)
(*                planner output, on a bounded set of raw outputs          *)
(*   SpecQuery    the interactive loop of main(): plan, execute, funnel,   *)
(*                rerank, answer                                           *)
(*   SpecBackoff  the retry counter and sleep bound of one chunk whose     *)
(*                rounds keep failing                                      *)
(*                                                                         *)
(* Dates are whole days (UTC instants), so pd.to_datetime(utc=True) and    *)
(* strftime('%Y/%m/%d') keep the day they are given.                       *)
(***************************************************************************)
EXTENDS Integers, Sequences, FiniteSets, TLC

VARIABLES
    \* ---- ingestion run (main, lines 262-277; fetch_emails_since) ----
    pc,                \* position of the process
    engine,            \* get_db_engine(): TRUE iff DATABASE_URL is configured
    mailbox,           \* message ids present in the Gmail mailbox
    store,             \* the emails table: a sequence of records (no key enforced)
    runs,              \* ingestion runs started so far
    existing_ids,      \* main: existing_ids
    last_sync,         \* main: last_sync, <<day>>, or <<>> for None
    all_messages,      \* fetch_emails_since: ids listed, in listing order
    chunk_start,       \* fetch_emails_since: the for loop's i (1-based here)
    current_batch_ids, \* fetch_emails_since: working subset of the chunk
    retry_attempt,     \* fetch_emails_since: retry_attempt
    batch_results,     \* fetch_emails_since: failed_ids and success_data of the last round
    email_data,        \* fetch_emails_since: the accumulator
    total_processed,   \* fetch_emails_since: total_processed
    sleep_bound,       \* the last evaluation of the sleep bound, <<>> before any
    new_emails,        \* main: new_emails
    \* ---- history of the ingestion runs (not read by the program) ----
    store_at_start,    \* the table when the current run began
    store_initial,     \* the table before the first run
    prev_mailbox,      \* the mailbox as listed by the preceding run
    run_mailbox,       \* the mailbox as listed by the current run
    outcomes,          \* how each finished run ended: "ingested" or "crashed"
    faults,            \* exceptions raised so far by the store and the transport
    requested,         \* the working subset of the round just issued
    answers,           \* what each request of that round got: "ok", "retry", "fatal", "none"
    fatal_ids,         \* ids answered with a fatal error in the current run
    lookups,           \* which of the two store lookups of the current run raised
    \* ---- reset_db.py (reset_database, lines 8-29) ----
    rpc,               \* position of the reset script
    confirm,           \* the line typed at its prompt
    table_exists,      \* whether the emails table exists in the database
    \* ---- planner post-processing (get_time_and_limit_sql, lines 237-245) ----
    raw_output,        \* response.text of the planner
    sql_query,         \* <<the statement returned by get_time_and_limit_sql>>, or <<>>
    \* ---- interactive loop (main, lines 280-346) ----
    qpc,               \* position inside the loop
    question,          \* the line read by input()
    df_results,        \* rows returned by pd.read_sql
    vectors,           \* enriched_df['vector']: one vector per row
    q_embed,           \* embedding of the question
    final_context_rows,\* rows handed to the answer synthesizer
    doc_embed_calls,   \* genai.embed_content calls with task_type retrieval_document
    query_embed_calls, \* genai.embed_content calls with task_type retrieval_query
    answer_calls,      \* get_answer calls of this question
    printed,           \* what the handling of the question printed last
    executed_sql,      \* <<the statement sent to the store>>, or <<>>
    last_error         \* the stage whose exception the last step caught, or "none"

ingestVars == <<pc, engine, mailbox, store, runs, existing_ids, last_sync,
                all_messages, chunk_start, current_batch_ids, retry_attempt,
                batch_results, email_data, total_processed, sleep_bound,
                new_emails, store_at_start, store_initial, prev_mailbox,
                run_mailbox, outcomes, faults, requested, answers, fatal_ids,
                lookups>>
histVars == <<answers, fatal_ids, lookups>>
resetVars == <<rpc, confirm, table_exists>>
planVars == <<raw_output, sql_query>>
queryVars == <<qpc, question, df_results, vectors, q_embed, final_context_rows,
               doc_embed_calls, query_embed_calls, answer_calls, printed,
               executed_sql, last_error>>
vars == <<ingestVars, planVars, queryVars, resetVars>>


\* ------------------------------------------------------------ bounds

\* ingestion runs of main() in one behaviour
MaxRuns == 2
\* retry rounds of one chunk in one behaviour (the code has no ceiling)
MaxAttempt == 2
\* BATCH_SIZE of the source is 50; the model's chunks are this long
BATCH_SIZE == 2
\* exceptions the store and the transport raise in one behaviour
MaxFaults == 1
\* DEFAULT_LIMIT of the source is 50; the model's funnel switches at this size
DEFAULT_LIMIT == 2
\* the planner's raw output is made of at most this many fragments
MaxParts == 3
\* the slice [-7:] of the source keeps 7 rows; the model keeps this many
TOP_K == 2
\* retry rounds of one chunk in SpecBackoff
MaxBackoffAttempt == 1030

\* the number of exceptions among the given outcomes
Count(raised) == Cardinality({k \in DOMAIN raised : raised[k]})

\* ------------------------------------------------------------ helpers

Min(a, b) == IF a <= b THEN a ELSE b

Range(s) == {s[k] : k \in 1..Len(s)}

RECURSIVE SeqMax(_)
SeqMax(s) ==
    IF Len(s) = 1 THEN s[1] ELSE LET m == SeqMax(Tail(s)) IN IF s[1] >= m THEN s[1] ELSE m

\* ------------------------------------------------------------ the mailbox

MsgIds == {"a", "b", "c"}

\* datetime.date.today(), as a day number
Today == 40

\* Gmail's internal date of each message (what the after: operator filters on)
InternalDay == [a |-> 37, b |-> 38, c |-> 39]

\* users().messages().get(): payload headers and snippet of each message.
\* Message b carries no Subject header, message c no From header.
Payload ==
    [a |-> [headers |-> <<[name |-> "Subject", value |-> "Invoice"],
                          [name |-> "From", value |-> "ann@x.org"],
                          [name |-> "Date", value |-> "Mon, 37"]>>,
            snippet |-> "Please pay"],
     b |-> [headers |-> <<[name |-> "From", value |-> "bob@x.org"],
                          [name |-> "Date", value |-> "Tue, 38"]>>,
            snippet |-> "Lunch?"],
     c |-> [headers |-> <<[name |-> "Subject", value |-> "Minutes"],
                          [name |-> "Date", value |-> "Wed, 39"]>>,
            snippet |-> "See attached"]]

\* next((h['value'] for h in headers if h['name'] == name), default)
HeaderOr(headers, name, default) ==
    LET hits == SelectSeq(headers, LAMBDA h : h.name = name)
    IN  IF hits = <<>> THEN default ELSE hits[1].value

\* The Date header values that date_parser.parse accepts, with their day
ParsedDay == [x \in {"Mon, 37", "Tue, 38", "Wed, 39"} |->
                 IF x = "Mon, 37" THEN 37 ELSE IF x = "Tue, 38" THEN 38 ELSE 39]

\* date_parser.parse(raw_date, fuzzy=True), or now(UTC) when that raises
\* (an absent Date header gives the empty string, which does not parse)
ParseDate(raw_date) ==
    IF raw_date \in DOMAIN ParsedDay THEN ParsedDay[raw_date] ELSE Today

\* batch_callback's success branch: the record built from a response
Normalize(request_id, response) ==
    LET headers  == response.headers
        subject  == HeaderOr(headers, "Subject", "No Subject")
        sender   == HeaderOr(headers, "From", "Unknown")
        raw_date == HeaderOr(headers, "Date", "")
    IN  [id      |-> request_id,
         text    |-> <<"From: ", sender, "Date: ", raw_date,
                       "Subject: ", subject, "Content: ", response.snippet>>,
         sender  |-> sender,
         subject |-> subject,
         date    |-> ParseDate(raw_date)]

Rec(m) == Normalize(m, Payload[m])

\* ------------------------------------------------------------ the store

IdsOf(records) == {records[k].id : k \in 1..Len(records)}

\* A lookup whose except branch does not fall back to set()
GetExistingIdsNoFallback(eng, table, raises) ==
    IF ~eng THEN {} ELSE IdsOf(table)

\* get_existing_ids: the set of stored ids; the empty set without an engine
\* or when the query raises
GetExistingIds(eng, table, raises) ==
    IF ~eng THEN {}
    ELSE IF raises THEN {}
    ELSE IdsOf(table)

\* A latest date without the one-day overlap
GetLatestDateFromDbNoOverlap(eng, table, raises) ==
    IF ~eng THEN <<>>
    ELSE IF raises THEN <<>>
    ELSE IF table = <<>> THEN <<>>
    ELSE <<SeqMax([k \in 1..Len(table) |-> table[k].date])>>

\* get_latest_date_from_db: MAX(date) minus one day; None (here <<>>) without
\* an engine, on an empty table or when the query raises
GetLatestDateFromDb(eng, table, raises) ==
    IF ~eng THEN <<>>
    ELSE IF raises THEN <<>>
    ELSE IF table = <<>> THEN <<>>
    ELSE <<SeqMax([k \in 1..Len(table) |-> table[k].date]) - 1>>

\* save_to_db: append the frame; nothing without an engine or on an empty frame
SaveToDb(df, eng, table) ==
    IF ~eng \/ df = <<>> THEN table ELSE table \o df

\* ------------------------------------------------------------ listing

\* fetch_emails_since, lines 88-90: the default window of 30 days
StartDate(start_date) ==
    IF start_date = <<>> THEN Today - 30 ELSE start_date[1]

\* The ids of the mailbox not older than the day asked for, newest first
RECURSIVE ListNewestFirst(_)
ListNewestFirst(S) ==
    IF S = {} THEN <<>>
    ELSE LET m == CHOOSE x \in S : \A y \in S : InternalDay[y] <= InternalDay[x]
         IN  <<m>> \o ListNewestFirst(S \ {m})

\* users().messages().list(q='after:<start>'), all pages
ListMessages(box, start) ==
    ListNewestFirst({m \in box : InternalDay[m] >= start})

\* ------------------------------------------------------------ one round

\* HTTP status of each per-item response of a grouped request; a round's
\* status gives one to each request answered before execute() returned or raised
Statuses == {200, 429, 500, 503, 404}

\* batch_callback, line 115
IsRetryable(status) == status \in {429, 500, 503}

\* The callbacks fired by batch.execute() for the first k requests, in request
\* order: (failed_ids, success_data) as batch_callback leaves them
RECURSIVE Callbacks(_, _, _)
Callbacks(ids, status, k) ==
    IF k = 0 THEN [failed_ids |-> <<>>, success_data |-> <<>>]
    ELSE LET before == Callbacks(ids, status, k - 1)
             m      == ids[k]
         IN  IF status[k] = 200
             THEN [before EXCEPT !.success_data = Append(@, Normalize(m, Payload[m]))]
             ELSE IF IsRetryable(status[k])
             THEN [before EXCEPT !.failed_ids = Append(@, m)]
             ELSE before

\* What batch_callback was told about each request of a round: a response
\* ("ok"), an error it records as retryable ("retry"), any other error
\* ("fatal"), or nothing because execute() raised first ("none")
Answers(ids, status, fired) ==
    [k \in 1..Len(ids) |->
        IF k > fired THEN "none"
        ELSE IF status[k] = 200 THEN "ok"
        ELSE IF IsRetryable(status[k]) THEN "retry"
        ELSE "fatal"]

\* An except branch that keeps what the callbacks recorded: failed_ids is not
\* replaced by the working subset
ExecuteBatchKeepsCallbacks(ids, status, raises, fired) ==
    Callbacks(ids, status, fired)

\* lines 158-161: batch.execute() and the except branch. fired is the number
\* of callbacks that ran before execute() returned or raised.
ExecuteBatch(ids, status, raises, fired) ==
    IF ~raises
    THEN Callbacks(ids, status, fired)
    ELSE [Callbacks(ids, status, fired) EXCEPT !.failed_ids = ids]

\* The accumulator assigned, not extended: email_data = success_data
AccumulateOverwrite(acc, success_data) == success_data

\* line 163: email_data.extend(batch_results["success_data"])
Accumulate(acc, success_data) == acc \o success_data

\* 2 ** n, saturating at 2^20 so that the model stays inside TLC's integers;
\* every use compares the result with 100 only
RECURSIVE Pow2(_)
Pow2(n) == IF n >= 20 THEN 1048576 ELSE IF n = 0 THEN 1 ELSE 2 * Pow2(n - 1)

\* (2 ** n) / 10 is a float: the division raises OverflowError when the
\* quotient exceeds the largest double, i.e. from n = 1028 on
FloatDivOverflows(n) == n >= 1028

\* line 171 without the jitter: min(10, (2 ** retry_attempt)/10), in tenths
\* of a second, or the OverflowError of the division
SleepBound(n) ==
    IF FloatDivOverflows(n)
    THEN [raised |-> TRUE, tenths |-> 0]
    ELSE [raised |-> FALSE, tenths |-> Min(100, Pow2(n))]


\* ------------------------------------------------------------ text

\* Text is a sequence of one-character strings.
UpperCase == <<"A", "B", "C", "D", "E", "F", "G", "H", "I", "J", "K", "L", "M",
               "N", "O", "P", "Q", "R", "S", "T", "U", "V", "W", "X", "Y", "Z">>
LowerCase == <<"a", "b", "c", "d", "e", "f", "g", "h", "i", "j", "k", "l", "m",
               "n", "o", "p", "q", "r", "s", "t", "u", "v", "w", "x", "y", "z">>
DigitChar == <<"0", "1", "2", "3", "4", "5", "6", "7", "8", "9">>
\* the backtick character (the module's strings cannot hold it)
Tick == "[backtick]"
\* the characters str.strip() removes
Whitespace == {" ", "\n", "\t", "\r"}

LowerChar(c) ==
    IF \E k \in 1..Len(UpperCase) : UpperCase[k] = c
    THEN LowerCase[CHOOSE k \in 1..Len(UpperCase) : UpperCase[k] = c]
    ELSE c

\* str.lower()
Lower(s) == [k \in 1..Len(s) |-> LowerChar(s[k])]

\* whether pat occurs in s at position i
MatchesAt(s, pat, i) ==
    /\ i + Len(pat) - 1 <= Len(s)
    /\ \A k \in 1..Len(pat) : s[i + k - 1] = pat[k]

\* str.replace(old, ""): the occurrences of old, found left to right without
\* overlap, are removed in one pass
RECURSIVE RemoveFrom(_, _, _)
RemoveFrom(s, old, i) ==
    IF i > Len(s) THEN <<>>
    ELSE IF MatchesAt(s, old, i) THEN RemoveFrom(s, old, i + Len(old))
    ELSE <<s[i]>> \o RemoveFrom(s, old, i + 1)

Remove(s, old) == RemoveFrom(s, old, 1)

\* str.strip()
RECURSIVE LStrip(_)
LStrip(s) ==
    IF s # <<>> /\ s[1] \in Whitespace THEN LStrip(Tail(s)) ELSE s

RECURSIVE RStrip(_)
RStrip(s) ==
    IF s # <<>> /\ s[Len(s)] \in Whitespace THEN RStrip(SubSeq(s, 1, Len(s) - 1)) ELSE s

Strip(s) == LStrip(RStrip(s))

\* pat in s: a scan for the first occurrence
RECURSIVE FindFrom(_, _, _)
FindFrom(s, pat, i) ==
    IF i + Len(pat) - 1 > Len(s) THEN FALSE
    ELSE IF MatchesAt(s, pat, i) THEN TRUE
    ELSE FindFrom(s, pat, i + 1)

Contains(s, pat) == FindFrom(s, pat, 1)

\* str(n) of a natural number, as the f-string formats it
RECURSIVE Str(_)
Str(n) ==
    IF n < 10 THEN <<DigitChar[n + 1]>>
    ELSE Str(n \div 10) \o <<DigitChar[(n % 10) + 1]>>

\* ------------------------------------------------------------ the planner

FenceSql == <<Tick, Tick, Tick, "s", "q", "l">>
Fence == <<Tick, Tick, Tick>>
WordSender == <<"s", "e", "n", "d", "e", "r">>
WordSubject == <<"s", "u", "b", "j", "e", "c", "t">>

\* line 243: f"SELECT * FROM emails ORDER BY date DESC LIMIT {DEFAULT_LIMIT}"
DefaultSql ==
    <<"S", "E", "L", "E", "C", "T", " ", "*", " ", "F", "R", "O", "M", " ", "e", "m", "a", "i", "l", "s", " ", "O", "R", "D", "E", "R", " ", "B", "Y", " ", "d", "a", "t", "e", " ", "D", "E", "S", "C", " ", "L", "I", "M", "I", "T", " ">>
    \o Str(DEFAULT_LIMIT)

\* line 238: response.text with both code-fence markers replaced by "" and
\* then stripped
CleanSql(text) == Strip(Remove(Remove(text, FenceSql), Fence))

\* The safety check that forgets .lower(): "sender" in clean_sql
GetTimeAndLimitSqlCaseSensitive(text) ==
    LET clean_sql == CleanSql(text)
    IN  IF Contains(clean_sql, WordSender) \/ Contains(clean_sql, WordSubject)
        THEN DefaultSql
        ELSE clean_sql

\* get_time_and_limit_sql, lines 238-245, on the planner's response.text
GetTimeAndLimitSql(text) ==
    LET clean_sql == CleanSql(text)
    IN  IF Contains(Lower(clean_sql), WordSender) \/ Contains(Lower(clean_sql), WordSubject)
        THEN DefaultSql
        ELSE clean_sql

\* Fragments of planner output
Pieces ==
    {<<Tick, Tick, Tick, "s", "q", "l">>,
     <<Tick, Tick, Tick>>,
     <<Tick>>,
     <<"s", "q", "l">>,
     <<"\n">>,
     <<" ">>,
     <<"S", "E", "L", "E", "C", "T", " ", "*">>,
     <<"d", "a", "t", "e", ">", "1">>,
     <<"s", "e", "n", "d", "e", "r", "=", "1">>,
     <<"S", "E", "N", "D", "E", "R">>,
     <<"S", "u", "b", "j", "e", "c", "t">>,
     <<"s", "e", "n">>,
     <<"d", "e", "r">>,
     <<"t", "e", "x", "t", "=", "1">>,
     <<"L", "I", "M", "I", "T", " ", "5">>}

\* The raw outputs of at most n fragments
RECURSIVE RawOutputs(_)
RawOutputs(n) ==
    IF n = 0 THEN {<<>>}
    ELSE LET shorter == RawOutputs(n - 1)
         IN  shorter \cup {r \o p : r \in shorter, p \in Pieces}

\* ------------------------------------------------------------ idle parts

\* The variables of a part that a specification does not exercise
PlanIdle == raw_output = <<>> /\ sql_query = <<>>

QueryIdle ==
    /\ qpc = "off"
    /\ question = <<>>
    /\ df_results = <<>>
    /\ vectors = <<>>
    /\ q_embed = <<>>
    /\ final_context_rows = <<>>
    /\ doc_embed_calls = 0
    /\ query_embed_calls = 0
    /\ answer_calls = 0
    /\ printed = <<>>
    /\ executed_sql = <<>>
    /\ last_error = "none"

\* ------------------------------------------------------------ ingestion

\* The tables a duplicate-free earlier run can have left behind
InitialStores == {<<>>, <<Rec("a")>>, <<Rec("a"), Rec("b")>>}

InitIngest ==
    /\ pc = "idle"
    /\ engine \in BOOLEAN
    /\ mailbox = {"a", "b"}
    /\ store \in (IF engine THEN InitialStores ELSE {<<>>})
    /\ runs = 0
    /\ existing_ids = {}
    /\ last_sync = <<>>
    /\ all_messages = <<>>
    /\ chunk_start = 1
    /\ current_batch_ids = <<>>
    /\ retry_attempt = 0
    /\ batch_results = [failed_ids |-> <<>>, success_data |-> <<>>]
    /\ email_data = <<>>
    /\ total_processed = 0
    /\ sleep_bound = <<>>
    /\ new_emails = <<>>
    /\ store_at_start = store
    /\ store_initial = store
    /\ prev_mailbox = {}
    /\ run_mailbox = {}
    /\ outcomes = <<>>
    /\ faults = 0
    /\ requested = <<>>
    /\ answers = <<>>
    /\ fatal_ids = {}
    /\ lookups = [ids |-> FALSE, date |-> FALSE]

\* reset_db.py has not been started; the emails table exists
ResetIdle ==
    /\ rpc = "off"
    /\ confirm = <<>>
    /\ table_exists = TRUE

Init == InitIngest /\ PlanIdle /\ QueryIdle /\ ResetIdle

\* A message arrives in the mailbox between two runs
NewMail ==
    /\ pc = "idle"
    /\ \E m \in MsgIds \ mailbox : mailbox' = mailbox \cup {m}
    /\ UNCHANGED <<pc, engine, store, runs, existing_ids, last_sync, all_messages,
                   chunk_start, current_batch_ids, retry_attempt, batch_results,
                   email_data, total_processed, sleep_bound, new_emails,
                   store_at_start, store_initial, prev_mailbox, run_mailbox,
                   requested>>
    /\ UNCHANGED outcomes
    /\ UNCHANGED faults
    /\ UNCHANGED histVars
    /\ UNCHANGED <<planVars, queryVars, resetVars>>

\* main, lines 264-271, and fetch_emails_since up to line 144: the two store
\* lookups (either may raise and fall back) and the listing of the window
StartRun ==
    /\ pc = "idle"
    /\ runs < MaxRuns
    /\ \E ids_raise \in BOOLEAN, date_raise \in BOOLEAN :
          /\ (ids_raise \/ date_raise) => engine
          /\ faults' = faults + Count(<<ids_raise, date_raise>>)
          /\ faults' <= MaxFaults
          /\ existing_ids' = GetExistingIds(engine, store, ids_raise)
          /\ last_sync' = GetLatestDateFromDb(engine, store, date_raise)
          /\ lookups' = [ids |-> ids_raise, date |-> date_raise]
    /\ answers' = <<>>
    /\ fatal_ids' = {}
    /\ all_messages' = ListMessages(mailbox, StartDate(last_sync'))
    /\ pc' = IF all_messages' = <<>> THEN "filter" ELSE "chunk"
    /\ runs' = runs + 1
    /\ chunk_start' = 1
    /\ current_batch_ids' = <<>>
    /\ retry_attempt' = 0
    /\ batch_results' = [failed_ids |-> <<>>, success_data |-> <<>>]
    /\ email_data' = <<>>
    /\ total_processed' = 0
    /\ sleep_bound' = <<>>
    /\ new_emails' = <<>>
    /\ store_at_start' = store
    /\ prev_mailbox' = run_mailbox
    /\ run_mailbox' = mailbox
    /\ requested' = <<>>
    /\ UNCHANGED <<engine, mailbox, store, store_initial>>
    /\ UNCHANGED outcomes
    /\ UNCHANGED <<planVars, queryVars, resetVars>>

\* A slice one id too long: all_messages[i:i+BATCH_SIZE+1]
ChunkAtOverlapping(all, i) == SubSeq(all, i, Min(i + BATCH_SIZE, Len(all)))

\* line 147: all_messages[i:i+BATCH_SIZE], with i counted from 1
ChunkAt(all, i) == SubSeq(all, i, Min(i + BATCH_SIZE - 1, Len(all)))

\* lines 146-148: the next chunk of the listing, or the return of email_data
\* when the listing is exhausted
NextChunk ==
    /\ pc = "chunk"
    /\ IF chunk_start <= Len(all_messages)
       THEN /\ current_batch_ids' = ChunkAt(all_messages, chunk_start)
            /\ retry_attempt' = 0
            /\ pc' = "round"
       ELSE /\ pc' = "filter"
            /\ UNCHANGED <<current_batch_ids, retry_attempt>>
    /\ UNCHANGED <<engine, mailbox, store, runs, existing_ids, last_sync,
                   all_messages, chunk_start, batch_results, email_data,
                   total_processed, sleep_bound, new_emails, store_at_start,
                   store_initial, prev_mailbox, run_mailbox, requested>>
    /\ UNCHANGED outcomes
    /\ UNCHANGED faults
    /\ UNCHANGED histVars
    /\ UNCHANGED <<planVars, queryVars, resetVars>>

\* lines 150-172: one round of the chunk's retry loop
Round ==
    /\ pc = "round"
    /\ current_batch_ids # <<>>
    /\ \E raises \in BOOLEAN, fired \in 0..Len(current_batch_ids) :
       \E status \in [1..fired -> Statuses] :
          LET res    == ExecuteBatch(current_batch_ids, status, raises, fired)
              failed == res.failed_ids
          IN  /\ raises <=> fired < Len(current_batch_ids)
              /\ faults' = faults + Count(<<raises>>)
              /\ faults' <= MaxFaults
              /\ batch_results' = res
              /\ email_data' = Accumulate(email_data, res.success_data)
              /\ total_processed' = total_processed + Len(res.success_data)
              /\ requested' = current_batch_ids
              /\ answers' = Answers(current_batch_ids, status, fired)
              /\ fatal_ids' = fatal_ids \cup
                     {current_batch_ids[k] : k \in {x \in DOMAIN status :
                                                      ~IsRetryable(status[x]) /\ status[x] # 200}}
              /\ IF failed = <<>>
                 THEN /\ pc' = "resolved"
                      /\ UNCHANGED <<retry_attempt, sleep_bound, current_batch_ids,
                                     outcomes>>
                 ELSE /\ retry_attempt < MaxAttempt
                      /\ retry_attempt' = retry_attempt + 1
                      /\ sleep_bound' = <<SleepBound(retry_attempt')>>
                      /\ IF SleepBound(retry_attempt').raised
                         THEN /\ pc' = "crashed"
                              /\ outcomes' = Append(outcomes, "crashed")
                              /\ UNCHANGED current_batch_ids
                         ELSE /\ pc' = "round"
                              /\ current_batch_ids' = failed
                              /\ UNCHANGED outcomes
    /\ UNCHANGED <<engine, mailbox, store, runs, existing_ids, last_sync,
                   all_messages, chunk_start, new_emails, store_at_start,
                   store_initial, prev_mailbox, run_mailbox, lookups>>
    /\ UNCHANGED <<planVars, queryVars, resetVars>>

\* line 174 and the for loop's step: the chunk is resolved, progress is printed
ChunkResolved ==
    /\ pc = "resolved"
    /\ chunk_start' = chunk_start + BATCH_SIZE
    /\ pc' = "chunk"
    /\ UNCHANGED <<engine, mailbox, store, runs, existing_ids, last_sync,
                   all_messages, current_batch_ids, retry_attempt, batch_results,
                   email_data, total_processed, sleep_bound, new_emails,
                   store_at_start, store_initial, prev_mailbox, run_mailbox,
                   requested>>
    /\ UNCHANGED outcomes
    /\ UNCHANGED faults
    /\ UNCHANGED histVars
    /\ UNCHANGED <<planVars, queryVars, resetVars>>

\* line 272: new_emails = [e for e in fetched if e['id'] not in existing_ids]
FilterNew(fetched, existing) ==
    SelectSeq(fetched, LAMBDA e : e.id \notin existing)

\* main, lines 272-277: the dedup filter and the save. to_sql may raise (the
\* store is down): nothing is written and the exception ends the process.
FilterAndSave ==
    /\ pc = "filter"
    /\ new_emails' = FilterNew(email_data, existing_ids)
    /\ \/ /\ store' = SaveToDb(new_emails', engine, store)
          /\ pc' = "ingested"
          /\ UNCHANGED faults
       \/ /\ engine
          /\ new_emails' # <<>>
          /\ faults < MaxFaults
          /\ faults' = faults + 1
          /\ store' = store
          /\ pc' = "crashed"
    /\ UNCHANGED <<engine, mailbox, runs, existing_ids, last_sync, all_messages,
                   chunk_start, current_batch_ids, retry_attempt, batch_results,
                   email_data, total_processed, sleep_bound, store_at_start,
                   store_initial, prev_mailbox, run_mailbox, requested>>
    /\ outcomes' = Append(outcomes, pc')
    /\ UNCHANGED histVars
    /\ UNCHANGED <<planVars, queryVars, resetVars>>

\* The process ends (the user quits the loop, line 282, or an exception ended
\* it): its locals are gone, the table and the mailbox stay. It may be started
\* again.
ExitProcess ==
    /\ pc \in {"ingested", "crashed"}
    /\ pc' = "idle"
    /\ existing_ids' = {}
    /\ last_sync' = <<>>
    /\ all_messages' = <<>>
    /\ chunk_start' = 1
    /\ current_batch_ids' = <<>>
    /\ retry_attempt' = 0
    /\ batch_results' = [failed_ids |-> <<>>, success_data |-> <<>>]
    /\ email_data' = <<>>
    /\ total_processed' = 0
    /\ sleep_bound' = <<>>
    /\ new_emails' = <<>>
    /\ requested' = <<>>
    /\ UNCHANGED <<engine, mailbox, store, runs, store_at_start, store_initial,
                   prev_mailbox, run_mailbox, outcomes>>
    /\ UNCHANGED faults
    /\ answers' = <<>>
    /\ fatal_ids' = {}
    /\ lookups' = [ids |-> FALSE, date |-> FALSE]
    /\ UNCHANGED <<planVars, queryVars, resetVars>>

Next ==
    \/ NewMail
    \/ StartRun
    \/ NextChunk
    \/ Round
    \/ ChunkResolved
    \/ FilterAndSave
    \/ ExitProcess

Spec == Init /\ [][Next]_vars

\* ------------------------------------------------------------ SpecPlan

\* The planner has answered with some raw output
InitPlan ==
    /\ raw_output \in RawOutputs(MaxParts)
    /\ sql_query = <<>>

\* get_time_and_limit_sql, lines 237-245
Plan ==
    /\ sql_query = <<>>
    /\ sql_query' = <<GetTimeAndLimitSql(raw_output)>>
    /\ UNCHANGED raw_output
    /\ UNCHANGED <<ingestVars, queryVars, resetVars>>

InitPlanner == InitIngest /\ ~engine /\ InitPlan /\ QueryIdle /\ ResetIdle

SpecPlan == InitPlanner /\ [][Plan]_vars

\* ------------------------------------------------------------ retrieval

\* the most rows a planned statement returns in the model
MaxRows == DEFAULT_LIMIT + 2

\* A stored record, as a row of the emails table
QueryRow(k) ==
    [id      |-> k,
     text    |-> <<"From: ", "ann@x.org", "Date: ", "Mon", "Subject: ", "Hello",
                   "Content: ", "Hi">>,
     sender  |-> "ann@x.org",
     subject |-> "Hello",
     date    |-> k]

\* The rows a statement can return: the n newest stored rows, newest first
\* (ORDER BY date DESC LIMIT n)
ResultSets == {[k \in 1..n |-> QueryRow(MaxRows + 1 - k)] : n \in 0..MaxRows}

\* np.zeros(768), here of dimension 2
Zeros == <<0, 0>>

\* The embeddings the capability returns, of the same dimension
EmbedPool == {<<1, 0>>, <<0, 1>>, <<-1, 0>>}

\* What one genai.embed_content call does: <<embedding>>, or <<>> when it raises
EmbedOutcomes == {<<>>} \cup {<<v>> : v \in EmbedPool}

\* embed_text, lines 181-194: zeros without a call on empty text, zeros when
\* the call raises, the embedding otherwise
EmbedText(text, outcome) ==
    IF text = <<>> THEN Zeros
    ELSE IF outcome = <<>> THEN Zeros
    ELSE outcome[1]

\* the embed_content calls that embed_text makes for the rows
EmbedTextCalls(rows) == Cardinality({k \in 1..Len(rows) : rows[k].text # <<>>})

\* lines 310-320: the frame with id renamed to doc_id and the vector column
Enrich(row, vector) ==
    [doc_id  |-> row.id,
     text    |-> row.text,
     sender  |-> row.sender,
     subject |-> row.subject,
     date    |-> row.date,
     vector  |-> vector]

\* np.dot of two vectors
RECURSIVE Dot(_, _)
Dot(u, v) ==
    IF u = <<>> THEN 0 ELSE u[1] * v[1] + Dot(Tail(u), Tail(v))

\* np.argsort(scores): an ordering of the indices by ascending score; the
\* order of equal scores is whatever the sort leaves
ArgSorts(scores) ==
    LET n == Len(scores)
    IN  {p \in [1..n -> 1..n] :
            /\ \A a, b \in 1..n : a # b => p[a] # p[b]
            /\ \A a \in 1..(n - 1) : scores[p[a]] <= scores[p[a + 1]]}

Reverse(s) == [k \in 1..Len(s) |-> s[Len(s) + 1 - k]]

\* line 331: np.argsort(scores)[-7:][::-1]
TopIndices(order) ==
    Reverse(SubSeq(order, IF Len(order) > TOP_K THEN Len(order) - TOP_K + 1 ELSE 1,
                   Len(order)))

\* A test that never takes the short cut of line 295
EmptyNever(rows) == FALSE

\* line 295: df_results.empty
Empty(rows) == Len(rows) = 0

\* The funnel that reranks from DEFAULT_LIMIT rows on: len(df_results) < DEFAULT_LIMIT
UsesAllRowsStrict(n) == n < DEFAULT_LIMIT

\* line 303: len(df_results) <= DEFAULT_LIMIT
UsesAllRows(n) == n <= DEFAULT_LIMIT

\* ------------------------------------------------------------ the loop

\* Lines typed at the prompt
Questions ==
    {<<"q">>,
     <<"Q">>,
     <<"q", "u", "i", "t">>,
     <<"Q", "U", "I", "T">>,
     <<"Q", "u", "i", "t">>,
     <<"q", "u", "i", "t", " ">>,
     <<"r", "e", "c", "e", "n", "t", " ", "m", "a", "i", "l", "?">>}

\* line 282: question.lower() in ['q', 'quit']
IsQuit(line) == Lower(line) \in {<<"q">>, <<"q", "u", "i", "t">>}

\* What the planner answers in the loop: a fenced date filter, a sender filter,
\* a body filter
QueryRaws ==
    {<<Tick, Tick, Tick, "s", "q", "l", "\n", "S", "E", "L", "E", "C", "T", " ", "*", " ", "W", "H", "E", "R", "E", " ", "d", "a", "t", "e", ">", "1", "\n", Tick, Tick, Tick>>,
     <<"S", "E", "L", "E", "C", "T", " ", "*", " ", "W", "H", "E", "R", "E", " ", "S", "e", "n", "d", "e", "r", "=", "1">>,
     <<"S", "E", "L", "E", "C", "T", " ", "*", " ", "W", "H", "E", "R", "E", " ", "t", "e", "x", "t", "=", "1">>}

\* An except clause that lets the failure of pd.read_sql escape the loop
ExceptMissesSql(stage) == IF stage = "execute" THEN "crashed" ELSE "prompt"

\* lines 344-346: except Exception around the whole handling of a question;
\* the position the loop continues at
Except(stage) == "prompt"

\* The start of the loop, before the first prompt
InitQuery ==
    /\ qpc = "prompt"
    /\ question = <<>>
    /\ df_results = <<>>
    /\ vectors = <<>>
    /\ q_embed = <<>>
    /\ final_context_rows = <<>>
    /\ doc_embed_calls = 0
    /\ query_embed_calls = 0
    /\ answer_calls = 0
    /\ printed = <<>>
    /\ executed_sql = <<>>
    /\ last_error = "none"

\* lines 281-284: read a line; quit on q or quit. What the previous question
\* left behind is not read again and is dropped here.
Ask ==
    /\ qpc = "prompt"
    /\ \E line \in Questions :
          /\ question' = line
          /\ qpc' = IF IsQuit(line) THEN "exited" ELSE "plan"
    /\ sql_query' = <<>>
    /\ raw_output' = <<>>
    /\ df_results' = <<>>
    /\ vectors' = <<>>
    /\ q_embed' = <<>>
    /\ final_context_rows' = <<>>
    /\ doc_embed_calls' = 0
    /\ query_embed_calls' = 0
    /\ answer_calls' = 0
    /\ printed' = <<>>
    /\ executed_sql' = <<>>
    /\ last_error' = "none"
    /\ UNCHANGED <<ingestVars, resetVars>>

\* lines 288-289: get_time_and_limit_sql; the reasoning capability may raise
PlanQuery ==
    /\ qpc = "plan"
    /\ \/ /\ \E raw \in QueryRaws :
                /\ raw_output' = raw
                /\ sql_query' = <<GetTimeAndLimitSql(raw)>>
          /\ qpc' = "execute"
          /\ printed' = <<"Executing SQL">>
          /\ last_error' = "none"
       \/ /\ qpc' = Except("plan")
          /\ printed' = <<"Error">>
          /\ last_error' = "plan"
          /\ UNCHANGED <<raw_output, sql_query>>
    /\ UNCHANGED <<question, df_results, vectors, q_embed, final_context_rows,
                   doc_embed_calls, query_embed_calls, answer_calls, executed_sql>>
    /\ UNCHANGED <<ingestVars, resetVars>>

\* lines 292-305: pd.read_sql, the empty-result exit and the funnel switch.
\* Without an engine read_sql raises before any statement reaches a store.
ExecuteSql ==
    /\ qpc = "execute"
    /\ \/ /\ engine
          /\ executed_sql' = sql_query
          /\ \E rows \in ResultSets :
                /\ df_results' = rows
                /\ IF Empty(rows)
                   THEN /\ printed' = <<"No emails matched your criteria.">>
                        /\ qpc' = "prompt"
                        /\ UNCHANGED final_context_rows
                   ELSE IF UsesAllRows(Len(rows))
                   THEN /\ printed' = <<"Count is low">>
                        /\ final_context_rows' = rows
                        /\ qpc' = "answer"
                   ELSE /\ printed' = <<"Count is high">>
                        /\ qpc' = "embed"
                        /\ UNCHANGED final_context_rows
          /\ last_error' = "none"
       \/ /\ executed_sql' = IF engine THEN sql_query ELSE <<>>
          /\ qpc' = Except("execute")
          /\ printed' = <<"Error">>
          /\ last_error' = "execute"
          /\ UNCHANGED <<df_results, final_context_rows>>
    /\ UNCHANGED <<question, vectors, q_embed, doc_embed_calls, query_embed_calls,
                   answer_calls>>
    /\ UNCHANGED <<ingestVars, planVars, resetVars>>

\* lines 310-320: the rows go through embed_text, one call per row, each of
\* which may raise inside embed_text; the dataflow itself may raise
EmbedRows ==
    /\ qpc = "embed"
    /\ \/ /\ \E outcome \in [1..Len(df_results) -> EmbedOutcomes] :
                vectors' = [k \in 1..Len(df_results) |->
                               EmbedText(df_results[k].text, outcome[k])]
          /\ doc_embed_calls' = doc_embed_calls + EmbedTextCalls(df_results)
          /\ qpc' = "rank"
          /\ last_error' = "none"
          /\ UNCHANGED printed
       \/ /\ qpc' = Except("embed")
          /\ printed' = <<"Error">>
          /\ last_error' = "embed"
          /\ UNCHANGED <<vectors, doc_embed_calls>>
    /\ UNCHANGED <<question, df_results, q_embed, final_context_rows,
                   query_embed_calls, answer_calls, executed_sql>>
    /\ UNCHANGED <<ingestVars, planVars, resetVars>>

\* lines 322-332: the question is embedded (the call is not guarded: its
\* exception reaches the except clause), the rows are scored and the top ones
\* kept, best first
RankRows ==
    /\ qpc = "rank"
    /\ query_embed_calls' = query_embed_calls + 1
    /\ \/ /\ \E v \in EmbedPool : q_embed' = <<v>>
          /\ LET scores == [k \in 1..Len(vectors) |-> Dot(vectors[k], q_embed'[1])]
             IN  \E order \in ArgSorts(scores) :
                    final_context_rows' =
                        [k \in 1..Len(TopIndices(order)) |->
                            Enrich(df_results[TopIndices(order)[k]],
                                   vectors[TopIndices(order)[k]])]
          /\ qpc' = "answer"
          /\ last_error' = "none"
          /\ UNCHANGED printed
       \/ /\ qpc' = Except("embed_query")
          /\ printed' = <<"Error">>
          /\ last_error' = "embed_query"
          /\ UNCHANGED <<q_embed, final_context_rows>>
    /\ UNCHANGED <<question, df_results, vectors, doc_embed_calls, answer_calls,
                   executed_sql>>
    /\ UNCHANGED <<ingestVars, planVars, resetVars>>

\* lines 335-342: the context is formatted and get_answer is called; the
\* reasoning capability may raise
Answer ==
    /\ qpc = "answer"
    /\ answer_calls' = answer_calls + 1
    /\ \/ /\ printed' = <<"ANSWER">>
          /\ qpc' = "prompt"
          /\ last_error' = "none"
       \/ /\ qpc' = Except("answer")
          /\ printed' = <<"Error">>
          /\ last_error' = "answer"
    /\ UNCHANGED <<question, df_results, vectors, q_embed, final_context_rows,
                   doc_embed_calls, query_embed_calls, executed_sql>>
    /\ UNCHANGED <<ingestVars, planVars, resetVars>>

NextQuery ==
    \/ Ask
    \/ PlanQuery
    \/ ExecuteSql
    \/ EmbedRows
    \/ RankRows
    \/ Answer

\* The loop is entered after the ingestion, with or without an engine
InitLoop == InitIngest /\ store = <<>> /\ PlanIdle /\ InitQuery /\ ResetIdle

SpecQuery == InitLoop /\ [][NextQuery]_vars

\* ------------------------------------------------------------ SpecBackoff

\* fetch_emails_since at line 146, with three ids listed
InitBackoff ==
    /\ InitIngest
    /\ engine
    /\ store = <<>>
    /\ PlanIdle
    /\ QueryIdle
    /\ ResetIdle

\* lines 146-148 for a listing of three ids: the first chunk, and after a
\* chunk is resolved the next one, each starting with retry_attempt = 0
BackoffNextChunk ==
    /\ pc \in {"idle", "resolved"}
    /\ chunk_start' = IF pc = "idle" THEN 1 ELSE chunk_start + BATCH_SIZE
    /\ chunk_start' <= 3
    /\ retry_attempt' = 0
    /\ pc' = "round"
    /\ UNCHANGED <<engine, mailbox, store, runs, existing_ids, last_sync,
                   all_messages, current_batch_ids, batch_results, email_data,
                   total_processed, sleep_bound, new_emails, store_at_start,
                   store_initial, prev_mailbox, run_mailbox, outcomes, faults,
                   requested>>
    /\ UNCHANGED histVars
    /\ UNCHANGED <<planVars, queryVars, resetVars>>

\* lines 166-172 in a round that left retryable failures: the counter, the
\* sleep, the next round; the exception of the sleep expression ends the fetch
BackoffRetry ==
    /\ pc = "round"
    /\ retry_attempt < MaxBackoffAttempt
    /\ retry_attempt' = retry_attempt + 1
    /\ sleep_bound' = <<SleepBound(retry_attempt')>>
    /\ pc' = IF SleepBound(retry_attempt').raised THEN "crashed" ELSE "round"
    /\ UNCHANGED <<engine, mailbox, store, runs, existing_ids, last_sync,
                   all_messages, chunk_start, current_batch_ids, batch_results,
                   email_data, total_processed, new_emails, store_at_start,
                   store_initial, prev_mailbox, run_mailbox, outcomes, faults,
                   requested>>
    /\ UNCHANGED histVars
    /\ UNCHANGED <<planVars, queryVars, resetVars>>

\* lines 167-168: a round without failures ends the chunk's loop
BackoffResolve ==
    /\ pc = "round"
    /\ pc' = "resolved"
    /\ UNCHANGED <<engine, mailbox, store, runs, existing_ids, last_sync,
                   all_messages, chunk_start, current_batch_ids, retry_attempt,
                   batch_results, email_data, total_processed, sleep_bound,
                   new_emails, store_at_start, store_initial, prev_mailbox,
                   run_mailbox, outcomes, faults, requested>>
    /\ UNCHANGED histVars
    /\ UNCHANGED <<planVars, queryVars, resetVars>>

NextBackoff ==
    \/ BackoffNextChunk
    \/ BackoffRetry
    \/ BackoffResolve

SpecBackoff == InitBackoff /\ [][NextBackoff]_vars

\* ------------------------------------------------------------ SpecReset

\* Lines typed at the prompt of reset_db.py
ConfirmLines ==
    {<<"y", "e", "s">>,
     <<"Y", "E", "S">>,
     <<"Y", "e", "s">>,
     <<"y", "E", "s">>,
     <<"y", "e", "S">>,
     <<"Y", "E", "s">>,
     <<"y", "E", "S">>,
     <<"Y", "e", "S">>,
     <<"n", "o">>,
     <<"N", "O">>,
     <<"n">>,
     <<"y">>,
     <<>>,
     <<"y", "e", "s", " ">>,
     <<"y", "e">>,
     <<"y", "e", "s", "s">>}

\* line 17: confirm.lower() != 'yes' is false
IsYes(line) == Lower(line) = <<"y", "e", "s">>

\* reset_db.py is started on a database whose emails table exists or not
InitReset ==
    /\ InitIngest
    /\ PlanIdle
    /\ QueryIdle
    /\ rpc = "off"
    /\ confirm = <<>>
    /\ table_exists \in BOOLEAN
    /\ ~table_exists => store = <<>>

\* lines 9-14: without DATABASE_URL the script returns; otherwise it warns
ResetBegin ==
    /\ rpc = "off"
    /\ rpc' = IF engine THEN "confirm" ELSE "nourl"
    /\ UNCHANGED <<confirm, table_exists>>
    /\ UNCHANGED <<ingestVars, planVars, queryVars>>

\* lines 15-19: the confirmation is read; anything but yes cancels
ResetConfirm ==
    /\ rpc = "confirm"
    /\ \E line \in ConfirmLines :
          /\ confirm' = line
          /\ rpc' = IF IsYes(line) THEN "drop" ELSE "cancelled"
    /\ UNCHANGED table_exists
    /\ UNCHANGED <<ingestVars, planVars, queryVars>>

\* lines 21-29: DROP TABLE IF EXISTS emails in a transaction; an exception
\* (the database is unreachable) is printed and leaves the table as it was
ResetDrop ==
    /\ rpc = "drop"
    /\ \/ /\ table_exists' = FALSE
          /\ store' = <<>>
          /\ rpc' = "dropped"
       \/ /\ rpc' = "failed"
          /\ UNCHANGED <<table_exists, store>>
    /\ UNCHANGED confirm
    /\ UNCHANGED <<pc, engine, mailbox, runs, existing_ids, last_sync,
                   all_messages, chunk_start, current_batch_ids, retry_attempt,
                   batch_results, email_data, total_processed, sleep_bound,
                   new_emails, store_at_start, store_initial, prev_mailbox,
                   run_mailbox, outcomes, faults, requested, histVars>>
    /\ UNCHANGED <<planVars, queryVars>>

NextReset ==
    \/ ResetBegin
    \/ ResetConfirm
    \/ ResetDrop

SpecReset == InitReset /\ [][NextReset]_vars

\* ------------------------------------------------------------ claims, Spec

\* The records the current run appended to the table
Appended == SubSeq(store, Len(store_at_start) + 1, Len(store))

IsPrefix(s, t) == Len(s) <= Len(t) /\ SubSeq(t, 1, Len(s)) = s

\* C1 (as claimed): when a run that read E = existing_ids from the store has
\* fetched F = email_data and finished, the number of records it appended
\* equals |ids(F) \ E| and no appended record has an id in E.
C1_DedupCorrectness ==
    (pc = "ingested" /\ engine) =>
        /\ Len(Appended) = Cardinality(IdsOf(email_data) \ existing_ids)
        /\ IdsOf(Appended) \cap existing_ids = {}

\* C2 (as claimed): starting from a non-empty table, when a second run follows
\* a finished first run and the mailbox it lists holds no message that the
\* first run did not list from, the second run leaves the table unchanged
\* (appends zero records).
C2_IdempotentIngestion ==
    (/\ pc = "ingested"
     /\ runs = 2
     /\ outcomes = <<"ingested", "ingested">>
     /\ store_initial # <<>>
     /\ run_mailbox \subseteq prev_mailbox)
        => store = store_at_start

\* C3 (as claimed): no two records of the emails table have the same id,
\* whatever the lookups of the runs returned.
C3_StoreIdUniqueness ==
    \A i, j \in 1..Len(store) : store[i].id = store[j].id => i = j

\* C4: inside one fetch the accumulator only grows at its end (no record is
\* removed or overwritten by a later round), and the successes of the last
\* round are in it from the end of that round.
C4_PartialBatchResilience ==
    /\ [](Range(batch_results.success_data) \subseteq Range(email_data))
    /\ [][pc' # "idle" /\ runs' = runs => IsPrefix(email_data, email_data')]_vars

\* C4's case: a record fetched in an earlier round is still held while the
\* rest of its chunk has failed retryably in every round up to the bound
C4_Witness ==
    /\ pc = "round"
    /\ retry_attempt = MaxAttempt
    /\ current_batch_ids # <<>>
    /\ batch_results.success_data = <<>>
    /\ email_data # <<>>
    /\ chunk_start = 1
    /\ IdsOf(email_data) \cap Range(current_batch_ids) = {}

\* ------------------------------------------------------------ claims, SpecPlan

\* c and d are the same letter in either case
SameLetter(c, d) ==
    c = d \/ \E k \in 1..Len(UpperCase) : {c, d} = {UpperCase[k], LowerCase[k]}

\* s holds word at some position, in any letter case
Mentions(s, word) ==
    \E i \in 1..Len(s) :
        /\ i + Len(word) - 1 <= Len(s)
        /\ \A k \in 1..Len(word) : SameLetter(s[i + k - 1], word[k])

\* the value of a run of decimal digits
RECURSIVE DecimalValue(_)
DecimalValue(d) ==
    IF d = <<>> THEN 0
    ELSE 10 * DecimalValue(SubSeq(d, 1, Len(d) - 1))
         + ((CHOOSE k \in 1..10 : DigitChar[k] = d[Len(d)]) - 1)

\* s is 'SELECT * FROM emails ORDER BY date DESC LIMIT <DEFAULT_LIMIT>'
IsSafeDefault(s) ==
    LET head == <<"S", "E", "L", "E", "C", "T", " ", "*", " ", "F", "R", "O", "M", " ", "e", "m", "a", "i", "l", "s", " ", "O", "R", "D", "E", "R", " ", "B", "Y", " ", "d", "a", "t", "e", " ", "D", "E", "S", "C", " ", "L", "I", "M", "I", "T", " ">>
        rest == SubSeq(s, Len(head) + 1, Len(s))
    IN  /\ Len(s) > Len(head)
        /\ SubSeq(s, 1, Len(head)) = head
        /\ \A k \in 1..Len(rest) : \E n \in 1..10 : DigitChar[n] = rest[k]
        /\ rest[1] # "0"
        /\ DecimalValue(rest) = DEFAULT_LIMIT

\* C5: when the raw output, once its code fences and outer whitespace are
\* stripped, holds 'sender' or 'subject' in any letter case, the planner returns
\* the safe default statement; when it holds neither, the planner returns the
\* stripped output unchanged.
C5_QueryPlanSafety ==
    sql_query # <<>> =>
        LET stripped == CleanSql(raw_output)
        IN  IF Mentions(stripped, WordSender) \/ Mentions(stripped, WordSubject)
            THEN IsSafeDefault(sql_query[1])
            ELSE sql_query[1] = stripped

\* C5's case: a fenced output that names the column in capitals was replaced
C5_Witness ==
    /\ sql_query # <<>>
    /\ Contains(raw_output, <<"S", "E", "N", "D", "E", "R">>)
    /\ Contains(raw_output, Fence)
    /\ sql_query[1] # CleanSql(raw_output)
    /\ IsSafeDefault(sql_query[1])

\* ------------------------------------------------------------ claims, SpecQuery

\* C6 (as claimed): a statement sent to the store never names the sender, the
\* subject or the body (text, content) column, whatever the planner produced.
C6_QueryPlanInvariant ==
    executed_sql # <<>> =>
        \A word \in {WordSender, WordSubject, <<"t", "e", "x", "t">>, <<"c", "o", "n", "t", "e", "n", "t">>} :
            ~Mentions(executed_sql[1], word)

\* the similarity score of a row of the reranked context
ScoreOf(row) == Dot(row.vector, q_embed[1])

\* C7: for a non-empty result of at most DEFAULT_LIMIT rows no embedding is
\* requested and the context is the result, in its order; for a larger result
\* one document embedding per row and exactly one query embedding are
\* requested, and the context holds at most TOP_K rows (7 in the source) in
\* descending order of score.
C7_RetrievalFunnelSwitch ==
    /\ (df_results # <<>> /\ Len(df_results) <= DEFAULT_LIMIT) =>
          /\ doc_embed_calls = 0
          /\ query_embed_calls = 0
          /\ qpc = "answer" => final_context_rows = df_results
    /\ (qpc = "answer" /\ Len(df_results) > DEFAULT_LIMIT) =>
          /\ doc_embed_calls = Len(df_results)
          /\ query_embed_calls = 1
          /\ Len(final_context_rows) <= TOP_K
          /\ \A k \in 1..(Len(final_context_rows) - 1) :
                ScoreOf(final_context_rows[k]) >= ScoreOf(final_context_rows[k + 1])

\* C7's case: one row more than DEFAULT_LIMIT was reranked, with scores that
\* differ inside the context
C7_Witness ==
    /\ qpc = "answer"
    /\ Len(df_results) = DEFAULT_LIMIT + 1
    /\ doc_embed_calls = DEFAULT_LIMIT + 1
    /\ query_embed_calls = 1
    /\ Len(final_context_rows) = TOP_K
    /\ ScoreOf(final_context_rows[1]) > ScoreOf(final_context_rows[TOP_K])

\* the place of result row k in the reranked context, 0 when it is left out
PlaceOf(k) ==
    IF \E c \in 1..Len(final_context_rows) : final_context_rows[c].doc_id = df_results[k].id
    THEN CHOOSE c \in 1..Len(final_context_rows) :
            final_context_rows[c].doc_id = df_results[k].id
    ELSE 0

\* C8 (as claimed): on the rerank path no embedding failure aborts the
\* retrieval, and a row whose embedding failed (the zero vector) ranks no higher
\* than any row whose embedding succeeded: it is in the context only together
\* with, and after, every such row.
C8_EmbeddingFailureDegradation ==
    /\ last_error # "embed_query"
    /\ (qpc = "answer" /\ Len(df_results) > DEFAULT_LIMIT) =>
          \A i, j \in 1..Len(df_results) :
              (vectors[i] = Zeros /\ vectors[j] # Zeros /\ PlaceOf(i) # 0) =>
                  (PlaceOf(j) # 0 /\ PlaceOf(j) < PlaceOf(i))

\* the line is q or quit in some letter case
IsQuitWord(line) ==
    \E word \in {<<"q">>, <<"q", "u", "i", "t">>} :
        /\ Len(line) = Len(word)
        /\ \A k \in 1..Len(word) : SameLetter(line[k], word[k])

C9_BackoffMonotonicity ==
    /\ [][chunk_start' # chunk_start => retry_attempt' = 0]_vars
    /\ [][retry_attempt' # retry_attempt /\ retry_attempt' # 0 =>
            /\ retry_attempt' = retry_attempt + 1
            /\ ~sleep_bound'[1].raised
            /\ retry_attempt >= 1 =>
                  LET before == sleep_bound[1].tenths
                      after  == sleep_bound'[1].tenths
                  IN  /\ before <= after
                      /\ before < 100 => before < after
                      /\ before = 100 => after = 100]_vars

\* ------------------------------------------------------------ claims, Spec (store lookups)

\* C11: in a run without an engine, or whose id lookup raised, existing_ids
\* is the empty set, the run goes on to the listing and the download instead
\* of ending, and its filter keeps every fetched record (new_emails is the
\* fetched list).
C11_StoreUnavailableDegradation ==
    /\ [][(runs' = runs + 1 /\ (~engine \/ lookups'.ids)) =>
            (existing_ids' = {} /\ pc' \in {"chunk", "filter"})]_vars
    /\ [][(pc = "filter" /\ pc' # "filter" /\ (~engine \/ lookups.ids)) =>
            new_emails' = email_data]_vars

\* C11's case: the id lookup raised on a table that holds records, the run
\* finished, and a record already stored was treated as new
C11_Witness ==
    /\ pc = "ingested"
    /\ engine
    /\ lookups.ids
    /\ store_at_start # <<>>
    /\ new_emails = email_data
    /\ IdsOf(new_emails) \cap IdsOf(store_at_start) # {}

\* ------------------------------------------------------------ claims, SpecReset

\* the line is yes in some letter case
IsYesWord(line) ==
    /\ Len(line) = 3
    /\ SameLetter(line[1], "y")
    /\ SameLetter(line[2], "e")
    /\ SameLetter(line[3], "s")

\* C12 (as claimed): the table is touched only when a database URL is
\* configured and the typed confirmation is yes in some letter case; any other
\* confirmation leaves the store as it was; after a confirmed reset the emails
\* table has been dropped and recreated: it exists and is empty.
C12_ResetGating ==
    /\ [][(store' # store \/ table_exists' # table_exists) =>
            (engine /\ IsYesWord(confirm))]_vars
    /\ [][(rpc = "confirm" /\ ~IsYesWord(confirm')) =>
            (rpc' = "cancelled" /\ store' = store /\ table_exists' = table_exists)]_vars
    /\ [](rpc = "dropped" => (table_exists /\ store = <<>>))

\* ------------------------------------------------------------ claims, Spec (rounds of a chunk)

\* the ids of the chunk being processed
ChunkIds == Range(ChunkAt(all_messages, chunk_start))

\* ids of the chunk with a record in the accumulator
Succeeded == IdsOf(email_data) \cap ChunkIds

\* ids of the chunk that were answered with a fatal error
FailedFatal == fatal_ids \cap ChunkIds

\* ids of the chunk that the last round left in failed_ids
FailedRetryable == Range(batch_results.failed_ids) \cap ChunkIds

\* ids of the chunk waiting for their first answer
Pending ==
    IF pc = "round"
    THEN (Range(current_batch_ids) \cap ChunkIds) \ Range(batch_results.failed_ids)
    ELSE {}

\* the number of classes an id of the chunk is in
ClassesOf(m) ==
    Cardinality({k \in 1..4 : m \in <<Pending, Succeeded, FailedRetryable, FailedFatal>>[k]})

\* C13 (as claimed): between the rounds of a chunk and when it is resolved,
\* every id of the chunk is in exactly one of pending, succeeded,
\* failed-retryable and failed-fatal; the chunk is resolved only with no id
\* pending or failed-retryable.
C13_FetchBatchPartition ==
    /\ pc \in {"round", "resolved"} => \A m \in ChunkIds : ClassesOf(m) = 1
    /\ pc = "resolved" => (Pending = {} /\ FailedRetryable = {})

\* the ids of the round just issued whose answer is one of the given kinds
AnsweredWith(kinds) == {requested[k] : k \in {x \in DOMAIN answers : answers[x] \in kinds}}

\* C14 (as claimed): a retry round requests exactly the ids that failed
\* retryably in the round before it (a retryable status, or no answer at all
\* because the grouped request raised), and no round requests an id that
\* succeeded or failed fatally earlier in the run.
C14_RetrySubsetRule ==
    [][pc = "round" =>
         /\ requested' = current_batch_ids
         /\ retry_attempt >= 1 => Range(requested') = AnsweredWith({"retry", "none"})
         /\ Range(requested') \cap (IdsOf(email_data) \cup fatal_ids) = {}]_vars

ChunkPositions(i) == {k \in 1..Len(all_messages) : i <= k /\ k < i + BATCH_SIZE}

\* C16: the chunks are the consecutive runs of BATCH_SIZE listing positions
\* (50 in the source); the first round of a chunk requests its ids in listing
\* order, every round requests ids of the current chunk only, and the loop
\* moves to the next chunk only from a resolved one, whose last round left no
\* failed id: an unresolved chunk keeps every later chunk unrequested.
C16_SequentialChunkOrdering ==
    /\ [](pc \in {"chunk", "round", "resolved"} => (chunk_start - 1) % BATCH_SIZE = 0)
    /\ [][pc = "round" =>
            /\ Range(requested') \subseteq {all_messages[k] : k \in ChunkPositions(chunk_start)}
            /\ retry_attempt = 0 =>
                  /\ Len(requested') = Cardinality(ChunkPositions(chunk_start))
                  /\ \A k \in 1..Len(requested') :
                        requested'[k] = all_messages[chunk_start + k - 1]]_vars
    /\ [][(chunk_start' # chunk_start /\ runs' = runs /\ pc' # "idle") =>
            /\ pc = "resolved"
            /\ batch_results.failed_ids = <<>>
            /\ chunk_start' = chunk_start + BATCH_SIZE]_vars

\* C16's case: the second chunk of a listing is in a retry round, after the
\* first chunk was resolved
C16_Witness ==
    /\ pc = "round"
    /\ Len(all_messages) > BATCH_SIZE
    /\ chunk_start = 1 + BATCH_SIZE
    /\ retry_attempt = 1
    /\ requested = <<all_messages[chunk_start]>>
    /\ {all_messages[k] : k \in 1..BATCH_SIZE} \subseteq IdsOf(email_data) \cup fatal_ids

\* ------------------------------------------------------------ claims, SpecBackoff (termination)

\* C17 (as claimed): the retry loop of a chunk is left only by a round that
\* yields no retryable id, so that the chunk is resolved; there is no attempt
\* ceiling: a round that leaves retryable ids is always followed by another
\* round of the chunk, however many rounds came before it.
C17_FetchTermination ==
    /\ [][(pc = "round" /\ pc' # "round") => pc' = "resolved"]_vars
    /\ [][(pc = "round" /\ retry_attempt' # retry_attempt) =>
            (retry_attempt' = retry_attempt + 1 /\ pc' = "round")]_vars

\* ------------------------------------------------------------ claims, Spec (fetch window)

\* the latest date among the records the table held when the run began
MaxStoredDate ==
    CHOOSE d \in {store_at_start[k].date : k \in 1..Len(store_at_start)} :
        \A k \in 1..Len(store_at_start) : store_at_start[k].date <= d

\* the run lists exactly the messages of its mailbox not older than the bound
ListsFrom(bound) == Range(all_messages) = {m \in run_mailbox : InternalDay[m] >= bound}

\* C18 (as claimed): in every run that starts on a table holding at least one
\* record the window's lower bound is the latest stored date minus one day;
\* the default bound of today minus 30 days is used only when the table holds
\* no record.
C18_FetchWindowSelection ==
    pc # "idle" =>
        IF store_at_start # <<>>
        THEN last_sync = <<MaxStoredDate - 1>> /\ ListsFrom(MaxStoredDate - 1)
        ELSE last_sync = <<>> /\ ListsFrom(Today - 30)

\* C18 (amended): the bound is the latest stored date minus one day when the
\* table holds at least one record and the date lookup did not raise; the
\* default bound of today minus 30 days is used when the table is empty or
\* absent, and also when the date lookup raised.
C18_FetchWindowSelectionAmended ==
    pc # "idle" =>
        IF store_at_start # <<>> /\ ~lookups.date
        THEN last_sync = <<MaxStoredDate - 1>> /\ ListsFrom(MaxStoredDate - 1)
        ELSE last_sync = <<>> /\ ListsFrom(Today - 30)

\* C18's case: the table held records, the date lookup raised, and the run
\* listed the default window
C18_Witness ==
    /\ pc = "round"
    /\ store_at_start # <<>>
    /\ lookups.date
    /\ last_sync = <<>>
    /\ all_messages # <<>>
    /\ ListsFrom(Today - 30)

\* ------------------------------------------------------------ claims, Spec (fetched list)

\* C19 (as claimed): the listing holds distinct ids, and at every point of
\* the download the accumulated list holds at most one record per id and the
\* processed count, as printed after each chunk, is at most the number of
\* listed ids, whatever the rounds answered or raised.
C19_NoDuplicateRecordsPerFetch ==
    pc \in {"chunk", "round", "resolved", "filter"} =>
        /\ \A i, j \in 1..Len(all_messages) : all_messages[i] = all_messages[j] => i = j
        /\ \A i, j \in 1..Len(email_data) : email_data[i].id = email_data[j].id => i = j
        /\ total_processed <= Len(all_messages)

\* ------------------------------------------------------------ claims, SpecQuery (empty result)

\* C20: when the planned statement returns no row, the handling of the
\* question ends there: the step that executed the statement prints that
\* nothing matched and is back at the prompt, and until the next question is
\* read no document embedding, no query embedding and no answer synthesis has
\* been requested.
C20_EmptyResultShortCircuit ==
    /\ [][(qpc = "execute" /\ last_error' = "none" /\ df_results' = <<>>) =>
            /\ qpc' = "prompt"
            /\ printed' = <<"No emails matched your criteria.">>]_vars
    /\ []((executed_sql # <<>> /\ last_error = "none" /\ df_results = <<>>) =>
            /\ qpc = "prompt"
            /\ doc_embed_calls = 0
            /\ query_embed_calls = 0
            /\ answer_calls = 0
            /\ final_context_rows = <<>>)

\* C20's case: a statement was executed, returned no row, and the loop
\* prompts again
C20_Witness ==
    /\ qpc = "prompt"
    /\ executed_sql # <<>>
    /\ last_error = "none"
    /\ df_results = <<>>
    /\ printed = <<"No emails matched your criteria.">>
    /\ answer_calls = 0

====
